---- MODULE Spec2Model ----
(***************************************************************************)
(* Model of the MGNREGA dashboard's data layer (src/utils.py) and of the   *)
(* tiered retrieval function get_district_data (src/app.py), including the *)
(* st.cache_data memoization that decorates it.                            *)
(*                                                                         *)
(* Python values are represented as follows.                               *)
(*   - a DataFrame / list of dicts : a sequence of records                 *)
(*   - None as a timestamp          : the empty tuple <<>>                  *)
(*   - a '%Y-%m-%d %H:%M:%S' string : <<day, second-of-day>>, so that the   *)
(*     text order SQLite's MAX applies is the lexicographic order          *)
(*   - datetime.now()               : seconds since an epoch (variable now) *)
(***************************************************************************)
EXTENDS Integers, Sequences, FiniteSets, TLC

(***************************************************************************)
(* Bounds of the model.                                                    *)
(***************************************************************************)
\* the clock is observed up to MaxDays freshness windows after the start
MaxDays == 1

\* the longest list of records the remote answers with
MaxRecords == 3

(***************************************************************************)
(* Program constants.                                                      *)
(***************************************************************************)
\* utils.py:55  is_cache_valid(..., ttl_seconds=86400)
TTL == 86400
\* app.py:270  @st.cache_data(ttl=86400)
MEMO_TTL == 86400
\* seconds in a calendar day, the carry between the date and the time part
\* of a '%Y-%m-%d %H:%M:%S' string
SecondsPerDay == 24 * 60 * 60

\* the instants at which the clock is observed: the start, and the last
\* second inside and the first second outside each freshness window
ClockValues == {0} \cup {k * TTL - 1 : k \in 1..MaxDays}
                   \cup {k * TTL : k \in 1..MaxDays}

\* app.py:202 default_states (the first of them) and two districts of it
\* (app.py:219, 247-258)
STATES == {"Uttar Pradesh"}
DISTRICTS == {"Lucknow", "Agra"}

None == << >>

(***************************************************************************)
(* The numeric fields of a record, and the records of a period.            *)
(***************************************************************************)
M0 == [households |-> 0, person_days |-> 0, expenditure |-> 0, avg_wage |-> 0]
M1 == [households |-> 10, person_days |-> 100, expenditure |-> 5, avg_wage |-> 2]
M2 == [households |-> 15, person_days |-> 300, expenditure |-> 9, avg_wage |-> 3]

\* a record as the Remote Source and the Offline Dataset list it
Rec(state, district, year, month, m) ==
    [state |-> state, district |-> district, year |-> year, month |-> month,
     households |-> m.households, person_days |-> m.person_days,
     expenditure |-> m.expenditure, avg_wage |-> m.avg_wage]

(***************************************************************************)
(* Timestamps: datetime.now().strftime('%Y-%m-%d %H:%M:%S') and            *)
(* datetime.strptime(timestamp, '%Y-%m-%d %H:%M:%S').                      *)
(***************************************************************************)
strftime(t) == << t \div SecondsPerDay, t % SecondsPerDay >>

strptime(ts) == ts[1] * SecondsPerDay + ts[2]

\* the order of the TEXT column updated_at: date part first, then time part
TextLeq(a, b) == a[1] < b[1] \/ (a[1] = b[1] /\ a[2] <= b[2])

(***************************************************************************)
(* Local Store: the table district_metrics, a set of rows.                 *)
(***************************************************************************)
\* the VALUES tuple with households and person_days in each other's place
Row_swapped(state, district, record, updated_at) ==
    [state |-> state, district |-> district,
     year |-> record.year, month |-> record.month,
     households |-> record.person_days, person_days |-> record.households,
     expenditure |-> record.expenditure, avg_wage |-> record.avg_wage,
     updated_at |-> updated_at]

\* the VALUES tuple taking state and district from the record
Row_fromrecord(state, district, record, updated_at) ==
    [state |-> record.state, district |-> record.district,
     year |-> record.year, month |-> record.month,
     households |-> record.households, person_days |-> record.person_days,
     expenditure |-> record.expenditure, avg_wage |-> record.avg_wage,
     updated_at |-> updated_at]

Row(state, district, record, updated_at) ==
    [state |-> state, district |-> district,
     year |-> record.year, month |-> record.month,
     households |-> record.households, person_days |-> record.person_days,
     expenditure |-> record.expenditure, avg_wage |-> record.avg_wage,
     updated_at |-> updated_at]

\* UNIQUE(state, district, year, month)
UniqueKey(r) == << r.state, r.district, r.year, r.month >>

\* INSERT without conflict resolution: the conflicting row stays
PlainInsert(rows, row) == rows \cup {row}

\* the district's rows of earlier writes deleted with the conflicting ones
InsertOrReplace_clear(rows, row) ==
    {r \in rows : /\ UniqueKey(r) # UniqueKey(row)
                  /\ ~(/\ r.state = row.state
                       /\ r.district = row.district
                       /\ r.updated_at # row.updated_at)} \cup {row}

\* INSERT OR REPLACE: rows that conflict on the UNIQUE constraint are deleted
InsertOrReplace(rows, row) ==
    {r \in rows : UniqueKey(r) # UniqueKey(row)} \cup {row}

\* the loop left after its first record
save_to_cache_first(rows, state, district, data_list, t) ==
    IF data_list = << >>
    THEN rows
    ELSE InsertOrReplace(rows, Row(state, district, Head(data_list), strftime(t)))

RECURSIVE save_to_cache(_, _, _, _, _)
save_to_cache(rows, state, district, data_list, t) ==
    IF data_list = << >>
    THEN rows
    ELSE save_to_cache(
           InsertOrReplace(rows, Row(state, district, Head(data_list), strftime(t))),
           state, district, Tail(data_list), t)

Matching(rows, state, district) ==
    {r \in rows : r.state = state /\ r.district = district}

\* ORDER BY year DESC, month DESC
Newer(a, b) == a.year > b.year \/ (a.year = b.year /\ a.month >= b.month)

RECURSIVE OrderByPeriodDesc(_)
OrderByPeriodDesc(S) ==
    IF S = {}
    THEN << >>
    ELSE LET first == CHOOSE r \in S : \A o \in S : Newer(r, o)
         IN  << first >> \o OrderByPeriodDesc(S \ {first})

get_from_cache(rows, state, district) ==
    OrderByPeriodDesc(Matching(rows, state, district))

\* SELECT MAX(updated_at) ... ; None when no row matches
get_cache_timestamp(rows, state, district) ==
    LET stamps == {r.updated_at : r \in Matching(rows, state, district)}
    IN  IF stamps = {}
        THEN None
        ELSE CHOOSE m \in stamps : \A o \in stamps : TextLeq(o, m)

\* the comparison with the TTL made non-strict
is_cache_valid_le(rows, state, district, t) ==
    LET timestamp == get_cache_timestamp(rows, state, district)
    IN  IF timestamp = None
        THEN FALSE
        ELSE (t - strptime(timestamp)) <= TTL

is_cache_valid(rows, state, district, t) ==
    LET timestamp == get_cache_timestamp(rows, state, district)
    IN  IF timestamp = None
        THEN FALSE
        ELSE (t - strptime(timestamp)) < TTL

(***************************************************************************)
(* Remote Source.  RemoteOutcome is what the body of fetch_from_api's try  *)
(* block does in one call: it raises (no network, bad status, undecodable  *)
(* response), or it yields None, an empty list or a list of records.  The  *)
(* body as shipped (utils.py:133) always yields None; the request it       *)
(* stands for is the commented code above it.                              *)
(***************************************************************************)
PyNone == [kind |-> "none", items |-> << >>]
PyList(items) == [kind |-> "list", items |-> items]
Raises == [kind |-> "raise", items |-> << >>]
NotCalled == [kind |-> "not_called", items |-> << >>]

\* `if api_data:` -- None and the empty list are falsy
Truthy(v) == v.kind = "list" /\ v.items # << >>

\* a district other than the one asked for
OtherDistrict(district) == CHOOSE d \in DISTRICTS : d # district

\* the lists the remote may answer with; the records' own state and district
\* fields are the remote's and need not be those asked for (the last list
\* opens with a record labelled with another district)
Payloads(state, district) ==
    { << Rec(state, district, 2025, 1, M1) >>,
      << Rec(state, district, 2024, 12, M1), Rec(state, district, 2025, 1, M0) >>,
      << Rec(state, OtherDistrict(district), 2025, 1, M1),
         Rec(state, district, 2025, 1, M2) >> }

RemoteOutcomes(state, district) ==
    {Raises, PyNone, PyList(<< >>)}
        \cup {PyList(p) : p \in Payloads(state, district)}

\* the except clause removed: the exception leaves fetch_from_api
fetch_from_api_uncaught(outcome) ==
    IF outcome.kind = "raise"
    THEN [raised |-> TRUE, value |-> PyNone]
    ELSE [raised |-> FALSE, value |-> outcome]

\* try: ... except Exception: return None
fetch_from_api(outcome) ==
    IF outcome.kind = "raise"
    THEN [raised |-> FALSE, value |-> PyNone]
    ELSE [raised |-> FALSE, value |-> outcome]

(***************************************************************************)
(* Offline Dataset: offline_data.json, a list of records, or no file.      *)
(***************************************************************************)
OFFLINE_DATA ==
    << Rec("Uttar Pradesh", "Lucknow", 2024, 12, M1),
       Rec("Uttar Pradesh", "Lucknow", 2025, 1, M2),
       Rec("Uttar Pradesh", "Agra", 2025, 1, M1) >>

\* the file is absent, complete, or holds one district only
OfflineFiles == { [exists |-> FALSE, data |-> << >>],
                  [exists |-> TRUE, data |-> OFFLINE_DATA],
                  [exists |-> TRUE, data |-> SubSeq(OFFLINE_DATA, 1, 2)] }

\* the district filter dropped: the branch for district=None is taken
load_offline_data_state_only(file, state, district) ==
    IF ~file.exists
    THEN << >>
    ELSE LET Wanted(record) == record.state = state
         IN  SelectSeq(file.data, Wanted)

\* load_offline_data(state, district) with a district given
load_offline_data(file, state, district) ==
    IF ~file.exists
    THEN << >>
    ELSE LET Wanted(record) == record.state = state /\ record.district = district
         IN  SelectSeq(file.data, Wanted)

(***************************************************************************)
(* The district selector (app.py:215-226).  The options are held as a set: *)
(* their order in the selectbox is not modelled.                           *)
(***************************************************************************)
\* SELECT DISTINCT district FROM district_metrics WHERE state = ?
get_districts_from_cache(rows, state) ==
    {r.district : r \in {x \in rows : x.state = state}}

\* load_offline_data(state) without a district, and the districts of it
get_districts_from_offline(file, state) ==
    IF ~file.exists
    THEN {}
    ELSE {file.data[i].district :
             i \in {k \in 1..Len(file.data) : file.data[k].state = state}}

\* the options of the district selectbox and of the comparison multiselect
cached_districts(rows, file, state) ==
    IF get_districts_from_cache(rows, state) # {}
    THEN get_districts_from_cache(rows, state)
    ELSE IF get_districts_from_offline(file, state) # {}
    THEN get_districts_from_offline(file, state)
    ELSE {"Lucknow"}

(***************************************************************************)
(* Retrieval Policy: the body of get_district_data (app.py:271-300).       *)
(* The result carries the returned triple (df, data_source, timestamp),    *)
(* the table after the call, how many times fetch_from_api was called and  *)
(* whether an exception left the function.                                 *)
(***************************************************************************)
Result(df, data_source, timestamp, rows, fetches, raised) ==
    [df |-> df, data_source |-> data_source, timestamp |-> timestamp,
     rows |-> rows, remote_called |-> fetches > 0, fetches |-> fetches,
     raised |-> raised]

\* stale rows withheld: the re-read of the table skipped
Fallback_withhold(rows, state, district, t, file) ==
    LET df == load_offline_data(file, state, district)
        saved == IF df # << >>
                 THEN save_to_cache(rows, state, district, df, t)
                 ELSE rows
    IN  Result(df, "offline", get_cache_timestamp(saved, state, district),
               saved, 1, FALSE)

\* the remote asked a second time before falling back
Fallback_retry(rows, state, district, t, file) ==
    LET cached == get_from_cache(rows, state, district)
    IN  IF cached # << >>
        THEN Result(cached, "cache",
                    get_cache_timestamp(rows, state, district), rows, 2, FALSE)
        ELSE LET df == load_offline_data(file, state, district)
                 saved == IF df # << >>
                          THEN save_to_cache(rows, state, district, df, t)
                          ELSE rows
             IN  Result(df, "offline",
                        get_cache_timestamp(saved, state, district),
                        saved, 2, FALSE)

\* the stale rows written back, which renews their updated_at
Fallback_touch(rows, state, district, t, file) ==
    LET cached == get_from_cache(rows, state, district)
    IN  IF cached # << >>
        THEN Result(cached, "cache",
                    get_cache_timestamp(rows, state, district),
                    save_to_cache(rows, state, district, cached, t), 1, FALSE)
        ELSE LET df == load_offline_data(file, state, district)
                 saved == IF df # << >>
                          THEN save_to_cache(rows, state, district, df, t)
                          ELSE rows
             IN  Result(df, "offline",
                        get_cache_timestamp(saved, state, district),
                        saved, 1, FALSE)

\* app.py:288-298, the branch taken when api_data is falsy; the one call of
\* fetch_from_api (app.py:281) precedes it
Fallback(rows, state, district, t, file) ==
    LET cached == get_from_cache(rows, state, district)
    IN  IF cached # << >>
        THEN Result(cached, "cache",
                    get_cache_timestamp(rows, state, district), rows, 1, FALSE)
        ELSE LET df == load_offline_data(file, state, district)
                 saved == IF df # << >>
                          THEN save_to_cache(rows, state, district, df, t)
                          ELSE rows
             IN  Result(df, "offline",
                        get_cache_timestamp(saved, state, district),
                        saved, 1, FALSE)

get_district_data(rows, state, district, t, outcome, file) ==
    IF is_cache_valid(rows, state, district, t)
    THEN Result(get_from_cache(rows, state, district), "cache",
                get_cache_timestamp(rows, state, district), rows, 0, FALSE)
    ELSE LET call == fetch_from_api(outcome)
         IN  IF call.raised
             THEN Result(<< >>, "cache", None, rows, 1, TRUE)
             ELSE IF Truthy(call.value)
             THEN Result(call.value.items, "api", strftime(t),
                         save_to_cache(rows, state, district, call.value.items, t),
                         1, FALSE)
             ELSE Fallback(rows, state, district, t, file)

(***************************************************************************)
(* Derived metrics and the main render block (app.py:302-633).             *)
(* An optional value is a sequence: << >> is None (absent), << v >> is v.  *)
(***************************************************************************)
Some(v) == << v >>

\* the sums of the numeric columns over a set of rows
RECURSIVE SumRows(_)
SumRows(S) ==
    IF S = {}
    THEN [households |-> 0, person_days |-> 0, expenditure |-> 0, avg_wage |-> 0]
    ELSE LET r == CHOOSE x \in S : TRUE
             rest == SumRows(S \ {r})
         IN  [households |-> rest.households + r.households,
              person_days |-> rest.person_days + r.person_days,
              expenditure |-> rest.expenditure + r.expenditure,
              avg_wage |-> rest.avg_wage + r.avg_wage]

\* int(sum / n) for a non-negative mean
IntOfMean(sum, n) == sum \div n

\* round(sum / n, 2), in hundredths; a tie goes to the even hundredth
Round2OfMean(sum, n) ==
    LET q == (100 * sum) \div n
        rem == (100 * sum) % n
    IN  IF 2 * rem < n THEN q
        ELSE IF 2 * rem > n THEN q + 1
        ELSE IF q % 2 = 0 THEN q ELSE q + 1

\* get_state_average(state, year, month): households and person_days are
\* integers, expenditure and avg_wage are in hundredths
get_state_average(rows, state, year, month) ==
    LET found == {r \in rows : r.state = state /\ r.year = year /\ r.month = month}
        n == Cardinality(found)
        sum == SumRows(found)
    IN  \* AVG over no row is NULL; `result[0]` is falsy when NULL or 0
        IF n = 0 \/ sum.households = 0
        THEN None
        ELSE Some([households |-> IntOfMean(sum.households, n),
                   person_days |-> IntOfMean(sum.person_days, n),
                   expenditure |-> Round2OfMean(sum.expenditure, n),
                   avg_wage |-> Round2OfMean(sum.avg_wage, n)])

\* a is of a strictly later period than b
Later(a, b) == a.year > b.year \/ (a.year = b.year /\ a.month > b.month)

\* the order reversed: ascending=True
RECURSIVE sort_values_ascending(_)
sort_values_ascending(df) ==
    IF df = << >>
    THEN << >>
    ELSE LET rest == sort_values_ascending(Tail(df))
             k == Cardinality({i \in 1..Len(rest) : Later(Head(df), rest[i])})
         IN  SubSeq(rest, 1, k) \o << Head(df) >> \o SubSeq(rest, k + 1, Len(rest))

\* df.sort_values(by=['year', 'month'], ascending=False): records of the
\* same period keep their order
RECURSIVE sort_values(_)
sort_values(df) ==
    IF df = << >>
    THEN << >>
    ELSE LET rest == sort_values(Tail(df))
             k == Cardinality({i \in 1..Len(rest) : Later(rest[i], Head(df))})
         IN  SubSeq(rest, 1, k) \o << Head(df) >> \o SubSeq(rest, k + 1, Len(rest))

\* app.py:329-339 on the sorted df
deltas(df) ==
    IF Len(df) > 1
    THEN Some([households |-> df[1].households - df[2].households,
               expenditure |-> df[1].expenditure - df[2].expenditure,
               person_days |-> df[1].person_days - df[2].person_days,
               avg_wage |-> df[1].avg_wage - df[2].avg_wage])
    ELSE None

\* sorted(df['year'].unique(), reverse=True)
RECURSIVE DescendingSeq(_)
DescendingSeq(S) ==
    IF S = {}
    THEN << >>
    ELSE LET top == CHOOSE x \in S : \A y \in S : y <= x
         IN  << top >> \o DescendingSeq(S \ {top})

all_years(df) == DescendingSeq({df[i].year : i \in 1..Len(df)})

\* range(5, 10): October left out
yoy_months_short == << 5, 6, 7, 8, 9 >>

\* range(5, 11)
yoy_months == << 5, 6, 7, 8, 9, 10 >>

\* df[(df['year'] == year) & (df['month'] == month_num)], and its iloc[0]
YearMonthData(df, year, month) ==
    LET Wanted(record) == record.year = year /\ record.month = month
    IN  SelectSeq(df, Wanted)

\* the inner loop `for year in all_years`, from position j on
RECURSIVE YoyOfMonth(_, _, _, _)
YoyOfMonth(df, years, month, j) ==
    IF j > Len(years)
    THEN << >>
    ELSE LET year_month_data == YearMonthData(df, years[j], month)
             entry == IF year_month_data = << >>
                      THEN << >>
                      ELSE << [Month |-> month, Year |-> years[j],
                               PersonDays |-> year_month_data[1].person_days] >>
         IN  entry \o YoyOfMonth(df, years, month, j + 1)

\* the outer loop `for month_num in range(5, 11)`, from position i on
RECURSIVE YoyFrom(_, _, _)
YoyFrom(df, years, i) ==
    IF i > Len(yoy_months)
    THEN << >>
    ELSE YoyOfMonth(df, years, yoy_months[i], 1) \o YoyFrom(df, years, i + 1)

yoy_data(df, years) == YoyFrom(df, years, 1)

\* yoy_df[yoy_df['Year'] == year]['Person-Days'].sum()
RECURSIVE YearTotal(_, _)
YearTotal(yoy, year) ==
    IF yoy = << >>
    THEN 0
    ELSE (IF Head(yoy).Year = year THEN Head(yoy).PersonDays ELSE 0)
            + YearTotal(Tail(yoy), year)

\* the guard on prev_total dropped
yoy_change_unguarded(latest_total, prev_total) ==
    Some([num |-> (latest_total - prev_total) * 100, den |-> prev_total])

\* app.py:615-616: the percentage ((latest - prev) / prev) * 100 as the
\* fraction num / den, computed only `if prev_total > 0`
yoy_change(latest_total, prev_total) ==
    IF prev_total > 0
    THEN Some([num |-> (latest_total - prev_total) * 100, den |-> prev_total])
    ELSE None

NoHistory ==
    [compared |-> FALSE, latest_year |-> 0, prev_year |-> 0,
     latest_total |-> 0, prev_total |-> 0, yoy_change |-> None]

\* app.py:488-633 on the sorted df
historical(df) ==
    LET years == all_years(df)
        yoy == yoy_data(df, years)
    IN  IF Len(years) >= 2 /\ yoy # << >>
        THEN LET latest_total == YearTotal(yoy, years[1])
                 prev_total == YearTotal(yoy, years[2])
             IN  [compared |-> TRUE,
                  latest_year |-> years[1], prev_year |-> years[2],
                  latest_total |-> latest_total, prev_total |-> prev_total,
                  yoy_change |-> yoy_change(latest_total, prev_total)]
        ELSE NoHistory

Abs(x) == IF x < 0 THEN 0 - x ELSE x

\* the summary without a month-over-month sentence
PlainSummary == [appended |-> "none", pct |-> None, infinite |-> FALSE]

\* utils.py:258-286 for language='en' on the sorted, non-empty df: which
\* month-over-month sentence is appended and the percentage it prints, as
\* the fraction num / den.  The operands are numpy numbers (rows of a
\* DataFrame): x / 0 is inf for x > 0, -inf for x < 0 and nan for x = 0, and
\* nan is neither > 0 nor < 0.
generate_summary(latest_data) ==
    IF Len(latest_data) > 1
    THEN LET row == latest_data[1]
             prev_row == latest_data[2]
             diff == row.person_days - prev_row.person_days
         IN  IF prev_row.person_days = 0
             THEN IF diff > 0
                  THEN [appended |-> "increase", pct |-> None, infinite |-> TRUE]
                  ELSE IF diff < 0
                  THEN [appended |-> "decrease", pct |-> None, infinite |-> TRUE]
                  ELSE PlainSummary
             ELSE LET pct == Some([num |-> Abs(diff) * 100,
                                   den |-> Abs(prev_row.person_days)])
                  IN  IF diff * prev_row.person_days > 0
                      THEN [appended |-> "increase", pct |-> pct, infinite |-> FALSE]
                      ELSE IF diff * prev_row.person_days < 0
                      THEN [appended |-> "decrease", pct |-> pct, infinite |-> FALSE]
                      ELSE PlainSummary
    ELSE PlainSummary

\* app.py:655: district_df.iloc[0]
latest_record(district_df) == district_df[1]

\* app.py:653-662: the entry of comparison_data for a district whose
\* get_district_data returned district_df (no entry for an empty one)
comparison_entry(district, district_df) ==
    IF district_df = << >>
    THEN None
    ELSE Some([District |-> district,
               Households |-> latest_record(district_df).households,
               PersonDays |-> latest_record(district_df).person_days,
               Expenditure |-> latest_record(district_df).expenditure,
               AvgWage |-> latest_record(district_df).avg_wage])

\* nothing rendered yet
NoView ==
    [shown |-> "none", df |-> << >>, latest |-> None, deltas |-> None,
     state_avg |-> None, summary |-> PlainSummary, historical |-> NoHistory,
     comparison |-> None, raised |-> FALSE]

\* st.error("No data available ..."); st.stop()
NoDataView == [NoView EXCEPT !.shown = "no_data"]

\* the check `if df.empty` dropped: the block goes on with the empty df and
\* `latest = df.iloc[0]` raises IndexError
main_render_nostop(df, rows, state) ==
    LET sorted == sort_values(df)
    IN  IF sorted = << >>
        THEN [NoView EXCEPT !.shown = "dashboard", !.raised = TRUE]
        ELSE [shown |-> "dashboard", df |-> sorted, latest |-> Some(sorted[1]),
              deltas |-> deltas(sorted),
              state_avg |-> get_state_average(rows, state, sorted[1].year,
                                              sorted[1].month),
              summary |-> generate_summary(sorted),
              historical |-> historical(sorted),
              comparison |-> None, raised |-> FALSE]

\* app.py:304-633 after get_district_data has returned df: what the run
\* shows, and whether an exception left the block up to the historical
\* summary
main_render(df, rows, state) ==
    IF df = << >>
    THEN NoDataView
    ELSE LET sorted == sort_values(df)
             latest == sorted[1]
         IN  [shown |-> "dashboard", df |-> sorted, latest |-> Some(latest),
              deltas |-> deltas(sorted),
              state_avg |-> get_state_average(rows, state, latest.year,
                                              latest.month),
              summary |-> generate_summary(sorted),
              historical |-> historical(sorted),
              comparison |-> None, raised |-> FALSE]

\* app.py:302-662: the main render block and, unless st.stop() ended the
\* run, the comparison's entry for the selected district (it is among the
\* districts compared by default, and its second call in the run is
\* answered by the memo with the same df)
script_run(df, rows, state, district) ==
    [main_render(df, rows, state)
        EXCEPT !.comparison = comparison_entry(district, df)]

(***************************************************************************)
(* State.                                                                  *)
(*   store        the rows of district_metrics in data_cache.db            *)
(*   memo         the entries of the st.cache_data cache of                *)
(*                get_district_data, keyed by its arguments                *)
(*   now          the wall clock, in seconds                               *)
(*   offline_file offline_data.json                                        *)
(*   last         the last call of the decorated get_district_data: its    *)
(*                arguments, what it returned and what it did              *)
(*   view         what the script run made of the df of that call          *)
(***************************************************************************)
VARIABLES store, memo, now, offline_file, last, view

vars == << store, memo, now, offline_file, last, view >>

NoCall ==
    [state |-> "", district |-> "", at |-> 0, memo_hit |-> FALSE,
     remote |-> NotCalled, fetches |-> 0, df |-> << >>, data_source |-> "",
     timestamp |-> None, raised |-> FALSE]

\* an entry of the memo is live for MEMO_TTL seconds after it was stored
Live(e, t) == t < e.created + MEMO_TTL

MemoEntries(state, district, t) ==
    {e \in memo : e.state = state /\ e.district = district /\ Live(e, t)}

Init ==
    /\ store = {}
    /\ memo = {}
    /\ now = 0
    /\ offline_file \in OfflineFiles
    /\ last = NoCall
    /\ view = NoView

\* time passes
Tick(t) ==
    /\ t > now
    /\ now' = t
    /\ UNCHANGED << store, memo, offline_file, last, view >>

\* init_database() recreating the table: DROP TABLE before CREATE TABLE
Restart_recreate ==
    /\ memo # {}
    /\ memo' = {}
    /\ last' = NoCall
    /\ view' = NoView
    /\ store' = {}
    /\ UNCHANGED << now, offline_file >>

\* the process is restarted: app.py:26 init_database() keeps the existing
\* table (CREATE TABLE IF NOT EXISTS), the in-process memo is gone (with an
\* empty memo a restart changes nothing)
Restart ==
    /\ memo # {}
    /\ memo' = {}
    /\ last' = NoCall
    /\ view' = NoView
    /\ UNCHANGED << store, now, offline_file >>

\* app.py:302-662: a run of the script whose call of the decorated function
\* is answered by the memo
MemoHit(state, district) ==
    /\ MemoEntries(state, district, now) # {}
    /\ LET e == CHOOSE e \in MemoEntries(state, district, now) : TRUE
       IN  /\ last' = [state |-> state, district |-> district, at |-> now,
                       memo_hit |-> TRUE, remote |-> NotCalled, fetches |-> 0,
                       df |-> e.df, data_source |-> e.data_source,
                       timestamp |-> e.timestamp, raised |-> FALSE]
           /\ view' = script_run(e.df, store, state, district)
    /\ UNCHANGED << store, memo, now, offline_file >>

\* app.py:302-662: a run of the script whose call of the decorated function
\* runs the body
MemoMiss(state, district, outcome) ==
    /\ MemoEntries(state, district, now) = {}
    /\ LET r == get_district_data(store, state, district, now, outcome, offline_file)
           kept == {e \in memo : Live(e, now)
                                  /\ ~(e.state = state /\ e.district = district)}
       IN  /\ store' = r.rows
           /\ memo' = IF r.raised
                      THEN kept
                      ELSE kept \cup {[state |-> state, district |-> district,
                                       df |-> r.df, data_source |-> r.data_source,
                                       timestamp |-> r.timestamp, created |-> now]}
           /\ last' = [state |-> state, district |-> district, at |-> now,
                       memo_hit |-> FALSE,
                       remote |-> IF r.remote_called THEN outcome ELSE NotCalled,
                       fetches |-> r.fetches,
                       df |-> r.df, data_source |-> r.data_source,
                       timestamp |-> r.timestamp, raised |-> r.raised]
           /\ view' = IF r.raised
                      THEN NoView
                      ELSE script_run(r.df, r.rows, state, district)
    /\ UNCHANGED << now, offline_file >>

Next ==
    \/ \E t \in ClockValues : Tick(t)
    \/ Restart
    \/ \E state \in STATES, district \in DISTRICTS : MemoHit(state, district)
    \/ \E state \in STATES, district \in DISTRICTS :
         \E outcome \in RemoteOutcomes(state, district) :
            MemoMiss(state, district, outcome)

Spec == Init /\ [][Next]_vars

(***************************************************************************)
(* The first run of a process whose remote answers with a list of up to    *)
(* MaxRecords records of the district over several years and months: the   *)
(* specification under which the derived metrics are checked.              *)
(***************************************************************************)
RenderPeriods ==
    { << 2023, 10 >>, << 2024, 5 >>, << 2024, 10 >>, << 2025, 4 >>, << 2025, 10 >> }

RenderRecords(state, district) ==
    { Rec(state, district, p[1], p[2], m) : p \in RenderPeriods, m \in {M0, M1, M2} }

RenderLists(state, district) ==
    UNION { [1..n -> RenderRecords(state, district)] : n \in 0..MaxRecords }

InitRender == Init /\ ~offline_file.exists

FirstRun(state, district, data_list) ==
    MemoMiss(state, district, PyList(data_list))

NextRender ==
    /\ last = NoCall
    /\ \E state \in STATES, district \in DISTRICTS :
          \E data_list \in RenderLists(state, district) :
             FirstRun(state, district, data_list)

SpecRender == InitRender /\ [][NextRender]_vars

(***************************************************************************)
(* Vocabulary of the properties.  In an action formula the unprimed        *)
(* variables are the state in which get_district_data is called and last'  *)
(* is what the call returned and did.                                      *)
(***************************************************************************)
\* this step is a call of the decorated get_district_data(state, district)
Called(state, district) ==
    /\ last' # last
    /\ last'.state = state
    /\ last'.district = district

\* fetch_from_api was called in this step and produced no data
RemoteFailed(call) ==
    call.remote.kind \in {"raise", "none", "list"} /\ ~Truthy(call.remote)

\* fetch_from_api was called in this step and produced a non-empty list
RemoteReturned(call) == Truthy(call.remote)

\* the numeric fields of a stored row are those of a record
SameMetrics(row, record) ==
    /\ row.households = record.households
    /\ row.person_days = record.person_days
    /\ row.expenditure = record.expenditure
    /\ row.avg_wage = record.avg_wage

\* the list this step handed to save_to_cache (empty when it saved nothing)
SavedList(call) ==
    IF ~call.memo_hit /\ call.data_source \in {"api", "offline"}
    THEN call.df
    ELSE << >>

\* record i of a list is the last one of the list for its (year, month)
LastForPeriod(list, i) ==
    \A j \in (i + 1)..Len(list) :
        ~(list[j].year = list[i].year /\ list[j].month = list[i].month)

\* the rows of the table under one key
RowsOfKey(rows, state, district, year, month) ==
    {r \in rows : UniqueKey(r) = << state, district, year, month >>}

\* the age in seconds of the newest row of (state, district)
Age(rows, state, district, t) ==
    t - strptime(get_cache_timestamp(rows, state, district))

\* record i of df is of a month from May to October
InSeason(df, i) == df[i].month >= 5 /\ df[i].month <= 10

\* record i of df is the first of df for its (year, month)
FirstForPeriod(df, i) ==
    \A k \in 1..(i - 1) :
        ~(df[k].year = df[i].year /\ df[k].month = df[i].month)

\* the sum of person_days over the records of df from position i on that are
\* of the year, in season and the first for their (year, month)
RECURSIVE SeasonTotal(_, _, _)
SeasonTotal(df, year, i) ==
    IF i > Len(df)
    THEN 0
    ELSE (IF df[i].year = year /\ InSeason(df, i) /\ FirstForPeriod(df, i)
          THEN df[i].person_days
          ELSE 0) + SeasonTotal(df, year, i + 1)

(***************************************************************************)
(* C1  Upsert round-trip: when save_to_cache(state, district, data_list)   *)
(* has run, get_from_cache(state, district) returns, for every record of   *)
(* the list that no later record of the list replaces (for a list [r]: for *)
(* r), a record of the same (year, month) whose households, person_days,   *)
(* expenditure and avg_wage are exactly the record's.                      *)
(***************************************************************************)
C1_UpsertRoundTrip ==
    [][\A state \in STATES, district \in DISTRICTS :
         Called(state, district) =>
            LET list == SavedList(last')
                read == get_from_cache(store', state, district)
            IN  \A i \in 1..Len(list) :
                    LastForPeriod(list, i) =>
                        \E k \in 1..Len(read) :
                            /\ read[k].year = list[i].year
                            /\ read[k].month = list[i].month
                            /\ SameMetrics(read[k], list[i])]_vars

\* a one-record list was saved and is read back
C1_Witness ==
    /\ ~last.memo_hit
    /\ last.data_source = "api"
    /\ Len(last.df) = 1
    /\ \E k \in 1..Len(get_from_cache(store, last.state, last.district)) :
          SameMetrics(get_from_cache(store, last.state, last.district)[k],
                      last.df[1])

(***************************************************************************)
(* C2  Key uniqueness and overwrite: the table never holds two rows with   *)
(* the same (state, district, year, month), and after a write the only row *)
(* under the written key carries the written values, whatever the row      *)
(* under that key held before.                                             *)
(***************************************************************************)
C2_UniqueOverwrite ==
    [][/\ \A a \in store', b \in store' : UniqueKey(a) = UniqueKey(b) => a = b
       /\ \A state \in STATES, district \in DISTRICTS :
            Called(state, district) =>
               LET list == SavedList(last')
               IN  \A i \in 1..Len(list) :
                      LastForPeriod(list, i) =>
                         \A r \in RowsOfKey(store', state, district,
                                            list[i].year, list[i].month) :
                            SameMetrics(r, list[i])]_vars

\* Lucknow's 2024-12 row dates from the start, when its 2025-01 row was
\* written with it and held other values (M0 or M2) than it holds now (M1)
C2_Witness ==
    /\ \E r \in RowsOfKey(store, "Uttar Pradesh", "Lucknow", 2024, 12) :
          r.updated_at = strftime(0)
    /\ \E r \in RowsOfKey(store, "Uttar Pradesh", "Lucknow", 2025, 1) :
          r.updated_at # strftime(0) /\ SameMetrics(r, M1)

(***************************************************************************)
(* C3  Step 1, fresh cache hit: whenever get_district_data(state,          *)
(* district) is called while the table holds rows of (state, district)     *)
(* whose newest updated_at is less than 24 hours old, the call returns     *)
(* exactly those rows, tagged "cache", with that updated_at as timestamp,  *)
(* and fetch_from_api is not called.                                       *)
(***************************************************************************)
C3_FreshCacheHit ==
    [][\A state \in STATES, district \in DISTRICTS :
         (Called(state, district) /\ is_cache_valid(store, state, district, now))
            => /\ last'.df = get_from_cache(store, state, district)
               /\ last'.data_source = "cache"
               /\ last'.timestamp = get_cache_timestamp(store, state, district)
               /\ last'.remote = NotCalled]_vars

(***************************************************************************)
(* C4  Step 2, remote refresh: when the rows of (state, district) are      *)
(* stale or absent and fetch_from_api returns a non-empty list, the call   *)
(* returns that list tagged "api" with timestamp now, and afterwards the   *)
(* table holds, with updated_at = now, every record of the list under      *)
(* (state, district, year, month) (of records sharing a period, the last). *)
(***************************************************************************)
C4_RemoteRefresh ==
    [][\A state \in STATES, district \in DISTRICTS :
         (/\ Called(state, district)
          /\ ~is_cache_valid(store, state, district, now)
          /\ RemoteReturned(last'))
            => /\ last'.data_source = "api"
               /\ last'.timestamp = strftime(now)
               /\ last'.df = last'.remote.items
               /\ \A i \in 1..Len(last'.df) :
                     LastForPeriod(last'.df, i) =>
                        Row(state, district, last'.df[i], strftime(now)) \in store'
               /\ ~last'.raised]_vars

\* a refresh at the first stale second: a row written at the start is still
\* in the table beside the refreshed one
C4_Witness ==
    /\ ~last.memo_hit
    /\ last.data_source = "api"
    /\ last.at = TTL
    /\ Len(last.df) = 2
    /\ \A i \in 1..2 :
          Row(last.state, last.district, last.df[i], strftime(TTL)) \in store
    /\ \E r \in store : r.updated_at = strftime(0)

(***************************************************************************)
(* C5  Step 3, stale-cache fallback: when the rows of (state, district)    *)
(* are stale and fetch_from_api raises inside, returns None or returns an  *)
(* empty list, the call returns the table's rows of (state, district)      *)
(* tagged "cache", and the timestamp is their newest updated_at, which is  *)
(* 24 hours old or more.                                                   *)
(***************************************************************************)
C5_StaleFallback ==
    [][\A state \in STATES, district \in DISTRICTS :
         (/\ Called(state, district)
          /\ Matching(store, state, district) # {}
          /\ ~is_cache_valid(store, state, district, now)
          /\ RemoteFailed(last'))
            => /\ last'.df = get_from_cache(store, state, district)
               /\ last'.df # << >>
               /\ last'.data_source = "cache"
               /\ last'.timestamp = get_cache_timestamp(store, state, district)
               /\ now - strptime(last'.timestamp) >= TTL
               /\ store' = store]_vars

\* the remote was asked, gave nothing, and rows a day old were returned
C5_Witness ==
    /\ RemoteFailed(last)
    /\ last.data_source = "cache"
    /\ last.df # << >>
    /\ last.at - strptime(last.timestamp) >= TTL

(***************************************************************************)
(* C6  Step 4, the offline fallback is persisted: when the table has no    *)
(* row of (state, district), fetch_from_api gives nothing and the offline  *)
(* file has matching records, the call is tagged "offline" and the records *)
(* are in the table afterwards; and the next call for the same (state,     *)
(* district), the remote still giving nothing, returns "cache".            *)
(***************************************************************************)
C6_OfflinePersisted ==
    [][\A state \in STATES, district \in DISTRICTS :
         /\ (/\ Called(state, district)
             /\ Matching(store, state, district) = {}
             /\ RemoteFailed(last')
             /\ load_offline_data(offline_file, state, district) # << >>)
               => /\ last'.data_source = "offline"
                  /\ \A i \in 1..Len(last'.df) :
                        Row(state, district, last'.df[i], strftime(now)) \in store'
         /\ (/\ Called(state, district)
             /\ last.state = state /\ last.district = district
             /\ last.data_source = "offline" /\ last.df # << >>
             /\ ~RemoteReturned(last'))
               => last'.data_source = "cache"]_vars

(***************************************************************************)
(* C7  Step 5, terminal failure: when the table has no row of (state,      *)
(* district), fetch_from_api gives nothing and the offline file is missing *)
(* or has no matching record, the call returns an empty record set and no  *)
(* exception leaves it.                                                    *)
(***************************************************************************)
C7_TerminalFailure ==
    [][\A state \in STATES, district \in DISTRICTS :
         (/\ Called(state, district)
          /\ Matching(store, state, district) = {}
          /\ RemoteFailed(last')
          /\ \A i \in 1..Len(offline_file.data) :
                ~(/\ offline_file.data[i].state = state
                  /\ offline_file.data[i].district = district))
            => /\ last'.df = << >>
               /\ ~last'.raised
               /\ store' = store]_vars

\* an empty result for a district the existing offline file does not list
C7_Witness ==
    /\ ~last.memo_hit
    /\ RemoteFailed(last)
    /\ last.df = << >>
    /\ ~last.raised
    /\ offline_file.exists
    /\ Matching(store, last.state, last.district) = {}

(***************************************************************************)
(* C8  Freshness window: whenever the decorated get_district_data(state,   *)
(* district) is called while the newest updated_at of (state, district) in *)
(* the table is 24 hours old or more, fetch_from_api is called during that *)
(* call.                                                                   *)
(***************************************************************************)
C8_StaleImpliesRemoteAttempt ==
    [][\A state \in STATES, district \in DISTRICTS :
         (/\ Called(state, district)
          /\ Matching(store, state, district) # {}
          /\ Age(store, state, district, now) >= TTL)
            => last'.remote # NotCalled]_vars

(***************************************************************************)
(* C9  Cache validity is a pure time rule: is_cache_valid(state, district) *)
(* is true exactly when the table has a row of (state, district) and now   *)
(* minus the latest updated_at of those rows is strictly less than 86400   *)
(* seconds.                                                                *)
(***************************************************************************)
C9_ValidityRule ==
    \A state \in STATES, district \in DISTRICTS :
        is_cache_valid(store, state, district, now)
            <=> \E r \in Matching(store, state, district) :
                   /\ \A o \in Matching(store, state, district) :
                         strptime(o.updated_at) <= strptime(r.updated_at)
                   /\ now - strptime(r.updated_at) < 86400

\* rows whose newest updated_at is exactly 24 hours old: not valid
C9_Witness ==
    \E state \in STATES, district \in DISTRICTS :
        /\ Matching(store, state, district) # {}
        /\ Age(store, state, district, now) = 86400
        /\ ~is_cache_valid(store, state, district, now)

(***************************************************************************)
(* C10  Remote errors do not leave get_district_data: when fetch_from_api  *)
(* raises inside, no exception leaves the call, and what the call returns  *)
(* and writes is what it returns and writes when the remote yields None.   *)
(***************************************************************************)
C10_RemoteErrorsAbsorbed ==
    [][\A state \in STATES, district \in DISTRICTS :
         (Called(state, district) /\ last'.remote = Raises)
            => LET nodata == get_district_data(store, state, district, now,
                                               PyNone, offline_file)
               IN  /\ ~last'.raised
                   /\ last'.df = nodata.df
                   /\ last'.data_source = nodata.data_source
                   /\ last'.timestamp = nodata.timestamp
                   /\ store' = nodata.rows
                   /\ last'.data_source \in {"cache", "offline"}]_vars

\* the remote raised and the call took the offline branch
C10_Witness ==
    /\ last.remote = Raises
    /\ ~last.raised
    /\ last.data_source = "offline"
    /\ last.df # << >>

(***************************************************************************)
(* C11  At most one remote call: every invocation of get_district_data     *)
(* calls fetch_from_api at most once, on every path (none on a fresh cache *)
(* hit or a memoized answer, exactly one when the remote is consulted,     *)
(* whether it then refreshes or falls back).                               *)
(***************************************************************************)
C11_AtMostOneRemoteCall ==
    [][\A state \in STATES, district \in DISTRICTS :
         Called(state, district)
            => /\ last'.fetches <= 1
               /\ (last'.remote # NotCalled) <=> (last'.fetches = 1)
               /\ (~last'.memo_hit /\ ~is_cache_valid(store, state, district, now))
                     => last'.fetches = 1]_vars

\* the remote was asked once, gave nothing, and the call went on to the
\* offline file
C11_Witness ==
    /\ last.fetches = 1
    /\ RemoteFailed(last)
    /\ last.data_source = "offline"

(***************************************************************************)
(* C12  The provenance tag identifies the tier: every result of            *)
(* get_district_data tagged "cache" holds the table's rows of (state,      *)
(* district), every result tagged "api" holds the payload fetch_from_api   *)
(* returned in this call, every result tagged "offline" holds the records  *)
(* load_offline_data returned in this call, and the tagged tier yielded at *)
(* least one record.                                                       *)
(***************************************************************************)
C12_TagIdentifiesTier ==
    [][\A state \in STATES, district \in DISTRICTS :
         Called(state, district)
            => /\ last'.data_source \in {"cache", "api", "offline"}
               /\ last'.data_source = "cache"
                     => /\ last'.df = get_from_cache(store', state, district)
                        /\ last'.df # << >>
               /\ last'.data_source = "api"
                     => /\ RemoteReturned(last')
                        /\ last'.df = last'.remote.items
               /\ last'.data_source = "offline"
                     => /\ ~last'.memo_hit
                        /\ last'.df = load_offline_data(offline_file, state, district)
                        /\ last'.df # << >>]_vars

(***************************************************************************)
(* C13  No eviction: no step removes a key (state, district, year, month)  *)
(* from the table; every key present before a step is present after it.    *)
(***************************************************************************)
C13_NoEviction ==
    [][\A r \in store : \E q \in store' : UniqueKey(q) = UniqueKey(r)]_vars

\* a remote refresh of a district has left in place a row of the district
\* that an earlier call wrote
C13_Witness ==
    /\ ~last.memo_hit
    /\ last.data_source = "api"
    /\ \E old \in Matching(store, last.state, last.district) :
          /\ strptime(old.updated_at) < last.at
          /\ \A i \in 1..Len(last.df) :
                ~(last.df[i].year = old.year /\ last.df[i].month = old.month)

(***************************************************************************)
(* C14  Only ingestion writes: whenever the table changes, the step is a   *)
(* run of the body of get_district_data that took the remote's non-empty   *)
(* payload or the offline file's non-empty records, and the change is the  *)
(* saving of exactly those records; the reads (get_from_cache,             *)
(* get_cache_timestamp, is_cache_valid, get_state_average), the derived    *)
(* metrics, the rendering and a restart leave the table as it was.         *)
(***************************************************************************)
C14_OnlyIngestionWrites ==
    [][store' # store
         => \E state \in STATES, district \in DISTRICTS :
               /\ Called(state, district)
               /\ ~last'.memo_hit
               /\ last'.df # << >>
               /\ \/ /\ last'.data_source = "api"
                     /\ last'.df = last'.remote.items
                  \/ /\ last'.data_source = "offline"
                     /\ last'.df = load_offline_data(offline_file, state, district)
               /\ store' = save_to_cache(store, state, district, last'.df, now)]_vars

\* a run answered by the memo has rendered the dashboard, state average
\* included, over a table that holds rows of both districts
C14_Witness ==
    /\ last.memo_hit
    /\ view.shown = "dashboard"
    /\ view.state_avg # None
    /\ \A district \in DISTRICTS : Matching(store, last.state, district) # {}

(***************************************************************************)
(* C15  No-data handling: when get_district_data has returned an empty     *)
(* record set, the run shows the "no data available" state and nothing     *)
(* else (no latest record, no deltas, no state average, no year-over-year  *)
(* figures), and no exception is raised.                                   *)
(***************************************************************************)
C15_NoDataStops ==
    (last # NoCall /\ last.df = << >>)
        => /\ view = NoDataView
           /\ view.shown = "no_data"
           /\ view.latest = None /\ view.deltas = None
           /\ view.state_avg = None /\ ~view.historical.compared
           /\ ~view.raised
           /\ ~last.raised

\* an empty result while the table holds rows of the other district, from
\* which a state average could have been drawn
C15_Witness ==
    /\ last # NoCall
    /\ last.df = << >>
    /\ view.shown = "no_data"
    /\ store # {}

(***************************************************************************)
(* C16  Year-over-year percentage: when two years are compared and the     *)
(* previous year's total is non-zero, the percentage is                    *)
(* (latest - previous) / previous x 100; when the previous year's total is *)
(* 0 no percentage is produced (and nothing is divided by zero).           *)
(***************************************************************************)
C16_YoYPercentage ==
    view.historical.compared
        => LET h == view.historical
           IN  IF h.prev_total # 0
               THEN /\ h.yoy_change # None
                    /\ h.yoy_change[1].den # 0
                    /\ h.yoy_change[1].num * h.prev_total
                          = (h.latest_total - h.prev_total) * 100
                               * h.yoy_change[1].den
               ELSE h.yoy_change = None

\* two years compared, the previous year's total 0 and the latest year's
\* not: no percentage
C16_Witness ==
    /\ view.historical.compared
    /\ view.historical.prev_total = 0
    /\ view.historical.latest_total > 0
    /\ view.historical.yoy_change = None

(***************************************************************************)
(* C17  Period-over-period delta: the rendered record set is the returned  *)
(* one ordered by (year, month) descending; when it has at least two       *)
(* records each of the four deltas is the first record's value minus the   *)
(* second record's value; with fewer than two records the deltas are       *)
(* absent.                                                                 *)
(***************************************************************************)
C17_PeriodDeltas ==
    view.shown = "dashboard"
        => /\ Len(view.df) = Len(last.df)
           /\ \A i \in 1..Len(last.df) :
                 Cardinality({k \in 1..Len(view.df) : view.df[k] = last.df[i]})
                    = Cardinality({k \in 1..Len(last.df) : last.df[k] = last.df[i]})
           /\ \A i \in 1..Len(view.df), j \in 1..Len(view.df) :
                 i < j => ~Later(view.df[j], view.df[i])
           /\ IF Len(view.df) >= 2
              THEN view.deltas
                      = << [households |-> view.df[1].households - view.df[2].households,
                            expenditure |-> view.df[1].expenditure - view.df[2].expenditure,
                            person_days |-> view.df[1].person_days - view.df[2].person_days,
                            avg_wage |-> view.df[1].avg_wage - view.df[2].avg_wage] >>
              ELSE view.deltas = None

\* three records returned oldest first, of three periods: the deltas are
\* those of the last returned against the one before it
C17_Witness ==
    /\ view.shown = "dashboard"
    /\ Len(last.df) = 3
    /\ Later(last.df[3], last.df[2]) /\ Later(last.df[2], last.df[1])
    /\ view.deltas # None
    /\ view.deltas[1].person_days
          = last.df[3].person_days - last.df[2].person_days
    /\ view.deltas[1].person_days # 0

(***************************************************************************)
(* C18  Group average: whenever the dashboard is rendered, the state       *)
(* average it shows is, for each of households, person_days, expenditure   *)
(* and avg_wage, the arithmetic mean of that field over all rows of the    *)
(* table matching (state, year, month) of the latest record.  (The model   *)
(* holds expenditure and avg_wage of the average in hundredths.)           *)
(***************************************************************************)
C18_StateAverageIsMean ==
    view.shown = "dashboard"
        => LET latest == view.latest[1]
               found == {r \in store : /\ r.state = last.state
                                       /\ r.year = latest.year
                                       /\ r.month = latest.month}
               n == Cardinality(found)
               sum == SumRows(found)
           IN  n > 0
                 => /\ view.state_avg # None
                    /\ view.state_avg[1].households * n = sum.households
                    /\ view.state_avg[1].person_days * n = sum.person_days
                    /\ view.state_avg[1].expenditure * n = 100 * sum.expenditure
                    /\ view.state_avg[1].avg_wage * n = 100 * sum.avg_wage

(***************************************************************************)
(* C19  Year-over-year aggregation: the two years compared are the two     *)
(* most recent years of the record set, and each one's total is the sum of *)
(* person_days over the months May to October of that year, one record     *)
(* (the first of the ordered set) per (year, month); months outside 5..10  *)
(* and older years do not count.                                           *)
(***************************************************************************)
C19_YoYTotals ==
    view.shown = "dashboard"
        => LET df == view.df
               years == {df[i].year : i \in 1..Len(df)}
               h == view.historical
           IN  /\ h.compared
                    <=> /\ Cardinality(years) >= 2
                        /\ \E i \in 1..Len(df) : InSeason(df, i)
               /\ h.compared
                    => /\ h.latest_year \in years /\ h.prev_year \in years
                       /\ \A y \in years : y <= h.latest_year
                       /\ \A y \in years \ {h.latest_year} : y <= h.prev_year
                       /\ h.prev_year < h.latest_year
                       /\ h.latest_total = SeasonTotal(df, h.latest_year, 1)
                       /\ h.prev_total = SeasonTotal(df, h.prev_year, 1)

\* two years compared, the latest with a record outside the season that
\* does not count and one inside it that does
C19_Witness ==
    /\ view.historical.compared
    /\ Cardinality({view.df[i].year : i \in 1..Len(view.df)}) = 2
    /\ \E i \in 1..Len(view.df) :
          /\ view.df[i].year = view.historical.latest_year
          /\ ~InSeason(view.df, i)
          /\ view.df[i].person_days > 0
    /\ view.historical.latest_total > 0
    /\ view.historical.prev_total > view.historical.latest_total

(***************************************************************************)
(* C20  get_district_data writes only when it ingests: a call that finds   *)
(* fresh rows (Step 1), a call that falls back to stale rows (Step 3) and  *)
(* a call that ends with no data (Step 5) leave the table, every           *)
(* updated_at included, exactly as it was; the table changes only when the *)
(* remote returned a non-empty payload or, the remote having given nothing *)
(* and the table holding no row of the key, the offline file had matching  *)
(* records.                                                                *)
(***************************************************************************)
C20_WritesOnlyOnFreshAndOffline ==
    [][\A state \in STATES, district \in DISTRICTS :
         Called(state, district)
            => /\ is_cache_valid(store, state, district, now) => store' = store
               /\ (/\ ~is_cache_valid(store, state, district, now)
                   /\ RemoteFailed(last')
                   /\ Matching(store, state, district) # {})
                     => store' = store
               /\ (/\ RemoteFailed(last')
                   /\ Matching(store, state, district) = {}
                   /\ load_offline_data(offline_file, state, district) = << >>)
                     => store' = store
               /\ store' # store
                     => \/ RemoteReturned(last')
                        \/ /\ RemoteFailed(last')
                           /\ Matching(store, state, district) = {}
                           /\ load_offline_data(offline_file, state, district) # << >>]_vars

\* after a stale-cache fallback every row of the key still carries an
\* updated_at a day old or more
C20_Witness ==
    /\ RemoteFailed(last)
    /\ last.data_source = "cache"
    /\ Matching(store, last.state, last.district) # {}
    /\ \A r \in Matching(store, last.state, last.district) :
          last.at - strptime(r.updated_at) >= TTL

(***************************************************************************)
(* C21  Per-key isolation: a call get_district_data(state, district)       *)
(* leaves every row of every other (state, district) exactly as it was,    *)
(* updated_at included, and every row it creates or overwrites is a row of *)
(* (state, district), whatever state and district fields the ingested      *)
(* records carry.                                                          *)
(***************************************************************************)
C21_PerKeyIsolation ==
    [][\A state \in STATES, district \in DISTRICTS :
         Called(state, district)
            => /\ (store' \ Matching(store', state, district))
                     = (store \ Matching(store, state, district))
               /\ \A r \in store' \ store :
                     r.state = state /\ r.district = district]_vars

\* a payload whose first record is labelled with the other district has been
\* ingested, and the other district's row of that period still carries the
\* updated_at of an earlier write
C21_Witness ==
    /\ ~last.memo_hit
    /\ last.data_source = "api"
    /\ last.df # << >>
    /\ last.df[1].district # last.district
    /\ \E r \in store :
          /\ r.district = last.df[1].district
          /\ r.year = last.df[1].year /\ r.month = last.df[1].month
          /\ strptime(r.updated_at) < last.at
    /\ \E r \in Matching(store, last.state, last.district) :
          r.updated_at = strftime(last.at)

(***************************************************************************)
(* C22  The selector keeps the offline districts: in every state reached   *)
(* by reruns and fetches, for every state every district that has records  *)
(* of that state in the offline file is among the options of the district  *)
(* selector.                                                               *)
(***************************************************************************)
C22_OfflineDistrictsOffered ==
    \A state \in STATES :
        get_districts_from_offline(offline_file, state)
            \subseteq cached_districts(store, offline_file, state)

(***************************************************************************)
(* C23  Comparison takes the most recent record: whenever a run has put a  *)
(* district's entry into the comparison, the entry's values are those of a *)
(* record of the greatest (year, month) of the record set                  *)
(* get_district_data returned for the district, whichever tier produced    *)
(* the set and in whatever order.                                          *)
(***************************************************************************)
C23_ComparisonLatestRecord ==
    view.comparison # None
        => \E i \in 1..Len(last.df) :
              /\ \A j \in 1..Len(last.df) : ~Later(last.df[j], last.df[i])
              /\ view.comparison[1].Households = last.df[i].households
              /\ view.comparison[1].PersonDays = last.df[i].person_days
              /\ view.comparison[1].Expenditure = last.df[i].expenditure
              /\ view.comparison[1].AvgWage = last.df[i].avg_wage

(***************************************************************************)
(* C24  get_state_average is None exactly when nothing matches: whenever   *)
(* the dashboard is rendered, the state average of the latest record's     *)
(* (state, year, month) is None if and only if the table holds no row of   *)
(* that (state, year, month); for a district whose rows are in the table   *)
(* it is a value.                                                          *)
(***************************************************************************)
C24_StateAverageNoneIffNoRecord ==
    view.shown = "dashboard"
        => LET latest == view.latest[1]
               found == {r \in store : /\ r.state = last.state
                                       /\ r.year = latest.year
                                       /\ r.month = latest.month}
           IN  /\ (view.state_avg = None) <=> (found = {})
               /\ Matching(store, last.state, last.district) # {}
                     => view.state_avg # None

(***************************************************************************)
(* C25  generate_summary (English) is well-defined for a non-empty record  *)
(* set: no exception; with fewer than two records no month-over-month      *)
(* sentence; with two or more and a previous person_days other than 0 the  *)
(* sentence reports (latest - previous) / previous x 100 as an increase    *)
(* when positive, as a decrease when negative, and nothing when zero; with *)
(* a previous person_days of 0 the text carries no percentage, infinite or *)
(* otherwise.                                                              *)
(***************************************************************************)
C25_SummaryWellDefined ==
    view.shown = "dashboard"
        => LET s == view.summary
               df == view.df
           IN  /\ ~view.raised
               /\ ~s.infinite
               /\ Len(df) < 2 => s.appended = "none"
               /\ Len(df) >= 2
                     => LET cur == df[1].person_days
                            prev == df[2].person_days
                        IN  IF prev = 0
                            THEN s.appended = "none" /\ s.pct = None
                            ELSE /\ cur = prev => s.appended = "none"
                                 /\ (cur - prev) * prev > 0
                                       => s.appended = "increase"
                                 /\ (cur - prev) * prev < 0
                                       => s.appended = "decrease"
                                 /\ cur # prev
                                       => /\ s.pct # None
                                          /\ s.pct[1].den # 0
                                          /\ s.pct[1].num * Abs(prev)
                                                = Abs(cur - prev) * 100 * s.pct[1].den

====
